---- MODULE Spec2Model ----
(***************************************************************************)
(* Model of the Cobalt Strike MCP bridge: the session client               *)
(* (cs_client.py), the data view handlers (cs_resources.py), the server    *)
(* lifecycle wrapper (cs_server.py) and the launcher flow (cs_mcp.py).     *)
(*                                                                         *)
(* Three specifications are given.  Spec lets a caller invoke the public   *)
(* operations of one CobaltStrikeClient / CobaltStrikeMCPServer pair in    *)
(* any order.  SpecViews reads the five resources on every answer the      *)
(* upstream can give.  SpecMain follows main() of the launcher step by     *)
(* step.                                                                   *)
(***************************************************************************)
EXTENDS Integers, Sequences, FiniteSets, TLC

(* ------------------------------ bounds --------------------------------- *)
\* number of shared clients one run may construct
MaxClients == 2
\* longest JSON list an upstream endpoint answers with
MaxItems == 1
\* longest task list the tasks endpoint answers with in SpecActivity
MaxTasks == 120
\* longest bind path handed to run() in SpecPath
MaxPathLen == 5
\* most operations of an API description in SpecRoutes
MaxOps == 2
\* number of data view handler tasks racing in SpecRace
MaxHandlers == 2

(* --------------------------- value universe ---------------------------- *)
\* Python None for the token field
None == "None"
\* self._client is None
NoClient == 0
\* tokens a login response may carry
Tokens == {"tokA", "tokB"}
\* Python truthiness of an optional string: None and "" are falsy
Falsy(x) == x = None \/ x = ""

\* a JSON object is a set of <<key, value>> pairs
dict_get(d, k) ==
    IF \E p \in d : p[1] = k THEN (CHOOSE p \in d : p[1] = k)[2] ELSE None

\* bodies of the login endpoint: unparsable text, or a JSON object
LoginBodies ==
    {[valid |-> FALSE, obj |-> {}]} \cup
    {[valid |-> TRUE, obj |-> {}]} \cup
    {[valid |-> TRUE, obj |-> {<<"access_token", t>>}] : t \in Tokens \cup {""}}

\* bodies of the data endpoints: unparsable text, a JSON list, a JSON object
\* (a list is the sequence of its items, in upstream order)
Items(n) == [i \in 1..n |-> i]
DataBodies ==
    {[valid |-> FALSE, is_list |-> FALSE, items |-> <<>>]} \cup
    {[valid |-> TRUE, is_list |-> FALSE, items |-> <<>>]} \cup
    {[valid |-> TRUE, is_list |-> TRUE, items |-> Items(n)] : n \in 0..MaxItems}

\* bodies of the specification endpoint: unparsable text, or a document
\* an API description is the set of its operations, each a path (the
\* sequence of its segments) with tags
NoDoc == {}
DocA == {[path |-> <<"api", "v1", "beacons">>, tags |-> {}],
         [path |-> <<"api", "v1", "security", "login">>, tags |-> {"Security"}]}
DocB == {[path |-> <<"api", "v1", "beacons">>, tags |-> {}]}
SpecDocs == {DocA, DocB}
SpecBodies ==
    {[valid |-> FALSE, doc |-> NoDoc]} \cup
    {[valid |-> TRUE, doc |-> d] : d \in SpecDocs}

NoBody == [valid |-> FALSE, is_list |-> FALSE, items |-> <<>>]
NoSpecBody == [valid |-> FALSE, doc |-> NoDoc]
NoLoginBody == [valid |-> FALSE, obj |-> {}]

LoginStatuses == {200, 201, 401, 500}
DataStatuses == {200, 204, 500}

\* httpx Response.is_success
is_success(status) == status >= 200 /\ status <= 299

\* what the upstream does with one request: raise a transport error
\* (httpx.HTTPError) or answer with a status and a body.  The code reads the
\* body of a login or spec response only when the status is 2xx and the body
\* of a data response only when it is 200, so the other statuses come with
\* one body each.
TransportError(b) == [kind |-> "transport_error", status |-> 0, body |-> b]
Response(st, b) == [kind |-> "response", status |-> st, body |-> b]
LoginResponses ==
    {TransportError(NoLoginBody)} \cup
    {Response(st, b) : st \in {x \in LoginStatuses : is_success(x)}, b \in LoginBodies} \cup
    {Response(st, NoLoginBody) : st \in {x \in LoginStatuses : ~is_success(x)}}
SpecResponses ==
    {TransportError(NoSpecBody)} \cup
    {Response(st, b) : st \in {x \in DataStatuses : is_success(x)}, b \in SpecBodies} \cup
    {Response(st, NoSpecBody) : st \in {x \in DataStatuses : ~is_success(x)}}
DataResponses ==
    {TransportError(NoBody)} \cup
    {Response(200, b) : b \in DataBodies} \cup
    {Response(st, NoBody) : st \in DataStatuses \ {200}}
\* the data responses the callers of Spec and SpecMain draw from: one that
\* raises, one that answers 200 and one that answers another status
FewResponses ==
    {TransportError(NoBody),
     Response(200, [valid |-> TRUE, is_list |-> TRUE, items |-> Items(MaxItems)]),
     Response(500, NoBody)}

(* ------------------------------- errors -------------------------------- *)
RuntimeError(m) == [type |-> "RuntimeError", msg |-> m]
NotAuthenticatedError == RuntimeError("Not authenticated. Call authenticate() first.")
AuthStatusError == RuntimeError("Authentication failed with status")
AuthRequestError == RuntimeError("Authentication request failed")
AuthMissingTokenError == RuntimeError("Authentication response did not include 'access_token'.")
SpecStatusError == RuntimeError("Failed to fetch OpenAPI spec (status)")
SpecRequestError == RuntimeError("Failed to fetch OpenAPI spec")
ServerNotCreatedError == RuntimeError("Server not created. Call create_server() first.")
JSONDecodeError == [type |-> "JSONDecodeError", msg |-> "Expecting value"]
HTTPError == [type |-> "HTTPError", msg |-> "transport failure"]
NoError == [type |-> "none", msg |-> ""]

\* outcome of a call: it returns a value or raises an error
Returned(k, v) == [raised |-> FALSE, error |-> NoError, kind |-> k, value |-> v]
Raised(e) == [raised |-> TRUE, error |-> e, kind |-> "raised", value |-> 0]
\* an exception whose message carries the status code v of the response
RaisedWith(e, v) == [raised |-> TRUE, error |-> e, kind |-> "raised", value |-> v]

(* ------------------------------- state --------------------------------- *)
VARIABLES
    token,       \* CobaltStrikeClient._token
    client,      \* CobaltStrikeClient._client: NoClient or an identity
    clients,     \* every shared client constructed so far, by identity
    mcp_server,  \* CobaltStrikeMCPServer._mcp_server
    call,        \* the operation just performed, its input and its outcome
    closes,      \* number of close() calls just made in a row, up to 2
    got,         \* instance get_authenticated_client handed out in that operation
    held,        \* instance it handed out most recently since the last close()
    dispatches,  \* the run_async calls that operation made, as their arguments
    life,        \* lifecycle of the wrapper, as its calls so far make it
    pc,          \* position of the launcher's main()
    pending,     \* exception in flight in main()
    exit_status, \* exit status of the process, once it has ended
    logged,      \* messages logged with logger.error or logger.exception
    trail,       \* the calls main() has made, in order
    login,       \* the connection of the latest login exchange
    tasks        \* the concurrent tasks: where each stands and the client it got

vars == <<token, client, clients, mcp_server, call, closes, got, held,
          dispatches, life, pc, pending, exit_status, logged, trail, tasks, login>>

(* ------------------- session client (cs_client.py) --------------------- *)
\* f"Bearer {token}"
Bearer(tok) == <<"Bearer ", tok>>

\* httpx.AsyncClient(..., headers={"Authorization": ...}) of the shared client
AsyncClient(tok) == [Authorization |-> Bearer(tok), closed |-> 0]

\* httpx.AsyncClient(..., headers={"User-Agent": ..., "Accept": ...}) of
\* authenticate: the connection of one login exchange
LoginClient == [made |-> TRUE, headers |-> {"User-Agent", "Accept"}, closed |-> 0]
\* no login exchange made yet
NoLogin == [made |-> FALSE, headers |-> {}, closed |-> 0]
\* await client.aclose() on the login connection
login_aclose(c) == [c EXCEPT !.closed = @ + 1]

\* authenticate as it would be if it stored the token before testing it
authenticate_stores_first(resp, tok) ==
    IF resp.kind = "transport_error"
    THEN [out |-> Raised(AuthRequestError), token |-> tok,
          login |-> login_aclose(LoginClient)]
    ELSE IF ~is_success(resp.status)
    THEN [out |-> Raised(AuthStatusError), token |-> tok,
          login |-> login_aclose(LoginClient)]
    ELSE IF ~resp.body.valid
    THEN [out |-> Raised(JSONDecodeError), token |-> tok,
          login |-> login_aclose(LoginClient)]
    ELSE LET t == dict_get(resp.body.obj, "access_token") IN
         IF Falsy(t)
         THEN [out |-> Raised(AuthMissingTokenError), token |-> t,
          login |-> login_aclose(LoginClient)]
         ELSE [out |-> Returned("token", t), token |-> t,
          login |-> login_aclose(LoginClient)]

\* authenticate as it would be if a failed login dropped the stored token
authenticate_clears_on_failure(resp, tok) ==
    IF resp.kind = "transport_error"
    THEN [out |-> Raised(AuthRequestError), token |-> None,
          login |-> login_aclose(LoginClient)]
    ELSE IF ~is_success(resp.status)
    THEN [out |-> Raised(AuthStatusError), token |-> None,
          login |-> login_aclose(LoginClient)]
    ELSE IF ~resp.body.valid
    THEN [out |-> Raised(JSONDecodeError), token |-> None,
          login |-> login_aclose(LoginClient)]
    ELSE LET t == dict_get(resp.body.obj, "access_token") IN
         IF Falsy(t)
         THEN [out |-> Raised(AuthMissingTokenError), token |-> None,
          login |-> login_aclose(LoginClient)]
         ELSE [out |-> Returned("token", t), token |-> t,
          login |-> login_aclose(LoginClient)]

\* authenticate as it would be if it released the login connection after
\* the try block instead of in a finally clause
authenticate_no_finally(resp, tok) ==
    IF resp.kind = "transport_error"
    THEN [out |-> Raised(AuthRequestError), token |-> tok, login |-> LoginClient]
    ELSE IF ~is_success(resp.status)
    THEN [out |-> Raised(AuthStatusError), token |-> tok, login |-> LoginClient]
    ELSE IF ~resp.body.valid
    THEN [out |-> Raised(JSONDecodeError), token |-> tok, login |-> LoginClient]
    ELSE LET t == dict_get(resp.body.obj, "access_token") IN
         IF Falsy(t)
         THEN [out |-> Raised(AuthMissingTokenError), token |-> tok,
               login |-> login_aclose(LoginClient)]
         ELSE [out |-> Returned("token", t), token |-> t,
               login |-> login_aclose(LoginClient)]

\* CobaltStrikeClient.authenticate on a login exchange that went as resp;
\* the result holds the outcome, the token field afterwards and the
\* connection the exchange was made on, which the finally clause releases
authenticate(resp, tok) ==
    IF resp.kind = "transport_error"
    THEN [out |-> Raised(AuthRequestError), token |-> tok,
          login |-> login_aclose(LoginClient)]
    ELSE IF ~is_success(resp.status)
    THEN [out |-> Raised(AuthStatusError), token |-> tok,
          login |-> login_aclose(LoginClient)]
    ELSE IF ~resp.body.valid
    THEN [out |-> Raised(JSONDecodeError), token |-> tok,
          login |-> login_aclose(LoginClient)]
    ELSE LET t == dict_get(resp.body.obj, "access_token") IN
         IF Falsy(t)
         THEN [out |-> Raised(AuthMissingTokenError), token |-> tok,
          login |-> login_aclose(LoginClient)]
         ELSE [out |-> Returned("token", t), token |-> t,
          login |-> login_aclose(LoginClient)]

\* get_authenticated_client as it would be without its test of the token
get_authenticated_client_unchecked(tok, cl, cls) ==
    IF cl = NoClient
    THEN [out |-> Returned("client", Len(cls) + 1), handed |-> Len(cls) + 1,
          client |-> Len(cls) + 1,
          clients |-> Append(cls, AsyncClient(tok))]
    ELSE [out |-> Returned("client", cl), handed |-> cl,
          client |-> cl, clients |-> cls]

\* get_authenticated_client as it would be without its test of the client
\* reference, constructing a client on every call
get_authenticated_client_always_new(tok, cl, cls) ==
    IF Falsy(tok)
    THEN [out |-> Raised(NotAuthenticatedError), handed |-> NoClient,
          client |-> cl, clients |-> cls]
    ELSE [out |-> Returned("client", Len(cls) + 1), handed |-> Len(cls) + 1,
          client |-> Len(cls) + 1,
          clients |-> Append(cls, AsyncClient(tok))]

\* CobaltStrikeClient.get_authenticated_client; the result holds the
\* outcome, the instance handed to the caller, the _client field and the
\* constructed clients afterwards
get_authenticated_client(tok, cl, cls) ==
    IF Falsy(tok)
    THEN [out |-> Raised(NotAuthenticatedError), handed |-> NoClient,
          client |-> cl, clients |-> cls]
    ELSE IF cl = NoClient
    THEN [out |-> Returned("client", Len(cls) + 1), handed |-> Len(cls) + 1,
          client |-> Len(cls) + 1,
          clients |-> Append(cls, AsyncClient(tok))]
    ELSE [out |-> Returned("client", cl), handed |-> cl,
          client |-> cl, clients |-> cls]

\* fetch_openapi_spec as it would be if it fell back on an empty document
fetch_openapi_spec_fallback(resp, tok, cl, cls) ==
    LET g == get_authenticated_client(tok, cl, cls) IN
    IF g.out.raised THEN g
    ELSE IF resp.kind = "transport_error" \/ ~is_success(resp.status)
            \/ ~resp.body.valid
    THEN [g EXCEPT !.out = Returned("spec", NoSpecBody.doc)]
    ELSE [g EXCEPT !.out = Returned("spec", resp.body.doc)]

\* CobaltStrikeClient.fetch_openapi_spec on a spec request that went as resp
fetch_openapi_spec(resp, tok, cl, cls) ==
    LET g == get_authenticated_client(tok, cl, cls) IN
    IF g.out.raised THEN g
    ELSE IF resp.kind = "transport_error"
    THEN [g EXCEPT !.out = Raised(SpecRequestError)]
    ELSE IF ~is_success(resp.status)
    THEN [g EXCEPT !.out = RaisedWith(SpecStatusError, resp.status)]
    ELSE IF ~resp.body.valid
    THEN [g EXCEPT !.out = Raised(JSONDecodeError)]
    ELSE [g EXCEPT !.out = Returned("spec", resp.body.doc)]

\* aclose as it would be if it released nothing
aclose_noop(cl, cls) == cls

\* httpx.AsyncClient.aclose on the client with identity cl
aclose(cl, cls) == [cls EXCEPT ![cl].closed = @ + 1]

\* close as it would be if it cleared the reference without awaiting aclose
close_forgets_aclose(cl, cls) ==
    [out |-> Returned("none", 0), client |-> NoClient, clients |-> cls]

\* close as it would be if it did not clear the reference
close_keeps_reference(cl, cls) ==
    IF cl # NoClient
    THEN [out |-> Returned("none", 0), client |-> cl, clients |-> aclose(cl, cls)]
    ELSE [out |-> Returned("none", 0), client |-> cl, clients |-> cls]

\* CobaltStrikeClient.close; the result holds the _client field and the
\* constructed clients afterwards
close(cl, cls) ==
    IF cl # NoClient
    THEN [out |-> Returned("none", 0), client |-> NoClient, clients |-> aclose(cl, cls)]
    ELSE [out |-> Returned("none", 0), client |-> cl, clients |-> cls]

(* ------------------ data view handlers (cs_resources.py) --------------- *)
\* the limit of the slice tasks_data[:50]
TaskLimit == 50

Min(a, b) == IF a < b THEN a ELSE b

\* the slice as it would be if it kept the whole list
Slice_all(seq, n) == seq

\* Python seq[:n]
Slice(seq, n) == SubSeq(seq, 1, Min(Len(seq), n))

\* the envelope of the handlers' outer "except Exception as e"
ExceptionEnvelope(e, message) ==
    [error |-> "Exception occurred", exception |-> e.msg, message |-> message]

\* the envelope of the handlers' "else" branch on response.status_code
StatusEnvelope(error, status, message) ==
    [error |-> error, status_code |-> status, message |-> message]

\* a handler's result: the state of get_authenticated_client g, with the
\* handler's own return value
Reply(g, kind, value) == [g EXCEPT !.out = Returned(kind, value)]

\* active_beacons_resource as it would be without its try/except
active_beacons_resource_unguarded(resp, tok, cl, cls) ==
    LET g == get_authenticated_client(tok, cl, cls) IN
    IF g.out.raised
    THEN g
    ELSE IF resp.kind = "transport_error"
    THEN [g EXCEPT !.out = Raised(HTTPError)]
    ELSE IF resp.status = 200
    THEN Reply(g, "text", resp.body)
    ELSE Reply(g, "json", StatusEnvelope("Failed to fetch beacons", resp.status,
                                         "Unable to retrieve active beacon data"))

\* active_beacons_resource, its GET /api/v1/beacons going as resp
active_beacons_resource(resp, tok, cl, cls) ==
    LET g == get_authenticated_client(tok, cl, cls)
        message == "Error while fetching beacon data" IN
    IF g.out.raised
    THEN Reply(g, "json", ExceptionEnvelope(g.out.error, message))
    ELSE IF resp.kind = "transport_error"
    THEN Reply(g, "json", ExceptionEnvelope(HTTPError, message))
    ELSE IF resp.status = 200
    THEN Reply(g, "text", resp.body)
    ELSE Reply(g, "json", StatusEnvelope("Failed to fetch beacons", resp.status,
                                         "Unable to retrieve active beacon data"))

\* server_info_resource, its GET /api/v1/config/localip going as localip and
\* its GET /api/v1/config/systeminformation going as sysinfo
server_info_resource(localip, sysinfo, tok, cl, cls) ==
    LET g == get_authenticated_client(tok, cl, cls)
        message == "Error while fetching server information"
        version_data ==
            IF localip.status = 200
            THEN [version |-> "available", api_status |-> "operational",
                  local_ip |-> localip.body]
            ELSE [version |-> "unknown", api_status |-> "limited"]
        server_info ==
            [cobalt_strike |-> [version |-> version_data, health_status |-> "connected"],
             mcp_server |-> [name |-> "Cobalt Strike API", authenticated |-> TRUE]]
        enriched ==
            [server_info EXCEPT !.cobalt_strike =
                [version |-> version_data, health_status |-> "connected",
                 system_information |-> sysinfo.body]] IN
    IF g.out.raised
    THEN Reply(g, "json", ExceptionEnvelope(g.out.error, message))
    ELSE IF localip.kind = "transport_error"
    THEN Reply(g, "json", ExceptionEnvelope(HTTPError, message))
    ELSE IF sysinfo.kind = "transport_error"
    THEN Reply(g, "json", ExceptionEnvelope(HTTPError, message))
    ELSE IF sysinfo.status = 200
    THEN Reply(g, "json", enriched)
    ELSE Reply(g, "json", server_info)

\* recent_activity_resource, its GET /api/v1/tasks going as resp
recent_activity_resource(resp, tok, cl, cls) ==
    LET g == get_authenticated_client(tok, cl, cls)
        message == "Error while fetching activity logs"
        tasks_data == resp.body
        recent_tasks ==
            IF tasks_data.is_list
            THEN [tasks_data EXCEPT !.items = Slice(@, TaskLimit)]
            ELSE tasks_data
        activity_summary ==
            [metadata |->
                [total_tasks_shown |->
                     IF recent_tasks.is_list THEN Len(recent_tasks.items) ELSE 1,
                 total_tasks_available |->
                     IF tasks_data.is_list THEN Len(tasks_data.items) ELSE 1],
             activities |-> recent_tasks] IN
    IF g.out.raised
    THEN Reply(g, "json", ExceptionEnvelope(g.out.error, message))
    ELSE IF resp.kind = "transport_error"
    THEN Reply(g, "json", ExceptionEnvelope(HTTPError, message))
    ELSE IF resp.status = 200
    THEN IF ~resp.body.valid
         THEN Reply(g, "json", ExceptionEnvelope(JSONDecodeError, message))
         ELSE Reply(g, "json", activity_summary)
    ELSE Reply(g, "json", StatusEnvelope("Failed to fetch activity logs", resp.status,
                                         "Unable to retrieve recent activity data"))

\* active_listeners_resource, its GET /api/v1/listeners going as resp
active_listeners_resource(resp, tok, cl, cls) ==
    LET g == get_authenticated_client(tok, cl, cls)
        message == "Error while fetching listener data"
        listeners_data == resp.body
        listener_summary ==
            [metadata |->
                [total_listeners |->
                     IF listeners_data.is_list THEN Len(listeners_data.items) ELSE 1,
                 status |-> "active"],
             listeners |-> listeners_data] IN
    IF g.out.raised
    THEN Reply(g, "json", ExceptionEnvelope(g.out.error, message))
    ELSE IF resp.kind = "transport_error"
    THEN Reply(g, "json", ExceptionEnvelope(HTTPError, message))
    ELSE IF resp.status = 200
    THEN IF ~resp.body.valid
         THEN Reply(g, "json", ExceptionEnvelope(JSONDecodeError, message))
         ELSE Reply(g, "json", listener_summary)
    ELSE Reply(g, "json", StatusEnvelope("Failed to fetch listeners", resp.status,
                                         "Unable to retrieve listener data"))

\* the endpoints dict of dashboard_stats_resource, in iteration order
endpoints == <<"beacons", "listeners", "tasks">>
EndpointNames == {endpoints[i] : i \in 1..Len(endpoints)}

\* the body of the dashboard loop for one endpoint, its GET going as resp
endpoint_stats(resp) ==
    IF resp.kind = "transport_error"
    THEN [count |-> "0", status |-> "error", error |-> HTTPError.msg]
    ELSE IF resp.status = 200
    THEN IF ~resp.body.valid
         THEN [count |-> "0", status |-> "error", error |-> JSONDecodeError.msg]
         ELSE IF resp.body.is_list
         THEN [count |-> ToString(Len(resp.body.items)), status |-> "available"]
         ELSE [count |-> "1", status |-> "available"]
    ELSE [count |-> "0", status |-> "unavailable", error_code |-> ToString(resp.status)]

\* the dashboard loop as it would be if it stopped at the first endpoint
\* that raises
RECURSIVE gather_abort(_, _, _)
gather_abort(i, resps, stats) ==
    IF i > Len(endpoints) THEN stats
    ELSE IF endpoint_stats(resps[endpoints[i]]).status = "error"
    THEN (endpoints[i] :> endpoint_stats(resps[endpoints[i]])) @@ stats
    ELSE gather_abort(i + 1, resps,
                      (endpoints[i] :> endpoint_stats(resps[endpoints[i]])) @@ stats)

\* the dashboard loop from the i-th endpoint on, stats being filled so far
RECURSIVE gather(_, _, _)
gather(i, resps, stats) ==
    IF i > Len(endpoints) THEN stats
    ELSE gather(i + 1, resps,
                (endpoints[i] :> endpoint_stats(resps[endpoints[i]])) @@ stats)

\* dashboard_stats_resource, the GET of each endpoint going as resps says
dashboard_stats_resource(resps, tok, cl, cls) ==
    LET g == get_authenticated_client(tok, cl, cls)
        message == "Error while fetching dashboard statistics"
        stats == "dashboard" :> [timestamp |-> "real-time", status |-> "operational"] IN
    IF g.out.raised
    THEN Reply(g, "json", ExceptionEnvelope(g.out.error, message))
    ELSE Reply(g, "json", gather(1, resps, stats))

(* ---------------- server lifecycle wrapper (cs_server.py) -------------- *)
\* self._mcp_server is None
NoServer == [created |-> FALSE, openapi_spec |-> NoDoc, tools |-> {}, client |-> NoClient,
             route_maps |-> <<>>]

\* the route_maps of create_kwargs
\* the route maps as they would be without the one for resetData
route_maps_security_only ==
    <<[tags |-> {"Security"}, pattern |-> "", mcp_type |-> "EXCLUDE"]>>

route_maps ==
    <<[tags |-> {"Security"}, pattern |-> "", mcp_type |-> "EXCLUDE"],
      [tags |-> {}, pattern |-> "^/.*/config/resetData", mcp_type |-> "EXCLUDE"]>>

ValueError == [type |-> "ValueError", msg |-> "invalid OpenAPI document"]

\* re.search of a route map's pattern in a path: the default pattern
\* matches every path, "^/.*/config/resetData" those that hold the segments
\* config and resetData after at least one other segment
pattern_matches(pattern, path) ==
    \/ pattern = ""
    \/ /\ pattern = "^/.*/config/resetData"
       /\ \E i \in 2..(Len(path) - 1) : path[i] = "config" /\ path[i + 1] = "resetData"

\* a route map applies to an operation that has all its tags and whose path
\* its pattern matches
route_matches(rm, op) == rm.tags \subseteq op.tags /\ pattern_matches(rm.pattern, op.path)

\* the first route map that applies to the operation excludes it
excluded(maps, op) ==
    \E i \in 1..Len(maps) :
        /\ route_matches(maps[i], op)
        /\ maps[i].mcp_type = "EXCLUDE"
        /\ \A j \in 1..(i - 1) : ~route_matches(maps[j], op)

\* the tool surface FastMCP.from_openapi generates: every operation that
\* no route map excludes
from_openapi(doc, maps) == {op \in doc : ~excluded(maps, op)}

\* CobaltStrikeMCPServer.create_server, its spec request going as resp and
\* FastMCP.from_openapi accepting the document or not (engine)
create_server(resp, engine, tok, cl, cls, srv) ==
    LET f == fetch_openapi_spec(resp, tok, cl, cls) IN
    IF f.out.raised
    THEN [out |-> f.out, handed |-> f.handed, client |-> f.client,
          clients |-> f.clients, mcp_server |-> srv]
    ELSE LET h == get_authenticated_client(tok, f.client, f.clients)
             server == [created |-> TRUE, openapi_spec |-> f.out.value,
                        tools |-> from_openapi(f.out.value, route_maps),
                        client |-> h.handed, route_maps |-> route_maps] IN
         IF engine = "raise"
         THEN [out |-> Raised(ValueError), handed |-> h.handed, client |-> h.client,
               clients |-> h.clients, mcp_server |-> srv]
         ELSE [out |-> Returned("server", server), handed |-> h.handed,
               client |-> h.client, clients |-> h.clients, mcp_server |-> server]

Transports == {"stdio", "http", "streamable-http", "sse"}
\* how the protocol runtime's run_async ends
RunOutcomes == {"return", "raise", "interrupt", "cancel"}
ServerError == [type |-> "Exception", msg |-> "MCP server error"]
KeyboardInterrupt == [type |-> "KeyboardInterrupt", msg |-> ""]
CancelledError == [type |-> "CancelledError", msg |-> ""]

\* what run_async ending as outcome makes run() do
run_async(outcome) ==
    CASE outcome = "return" -> Returned("none", 0)
      [] outcome = "raise" -> Raised(ServerError)
      [] outcome = "interrupt" -> Raised(KeyboardInterrupt)
      [] outcome = "cancel" -> Raised(CancelledError)

\* a string is the sequence of its characters
DefaultPath == <<"/", "m", "c", "p">>
DefaultHost == "127.0.0.1"
DefaultPort == 3000

\* str.startswith for a one-character prefix
startswith(s, c) == Len(s) > 0 /\ s[1] = c

\* str.rstrip for one character
RECURSIVE rstrip(_, _)
rstrip(s, c) ==
    IF Len(s) > 0 /\ s[Len(s)] = c THEN rstrip(SubSeq(s, 1, Len(s) - 1), c) ELSE s

\* the path normalisation as it would be if it removed one trailing slash
normalize_path_one_slash(path) ==
    LET lead == IF startswith(path, "/") THEN path ELSE <<"/">> \o path
        cut == IF Len(lead) > 0 /\ lead[Len(lead)] = "/"
               THEN SubSeq(lead, 1, Len(lead) - 1) ELSE lead IN
    IF cut = <<>> THEN <<"/">> ELSE cut

\* normalized_path of run(): path if path.startswith("/") else "/" + path,
\* then .rstrip("/") or "/"
normalize_path(path) ==
    LET lead == IF startswith(path, "/") THEN path ELSE <<"/">> \o path
        cut == rstrip(lead, "/") IN
    IF cut = <<>> THEN <<"/">> ELSE cut

\* the keyword arguments run() hands to run_async
run_kwargs(transport, host, port, path, log_level) ==
    LET normalized_path == normalize_path(path)
        network == [transport |-> transport, host |-> host, port |-> port,
                    path |-> normalized_path]
        levelled == [transport |-> transport, host |-> host, port |-> port,
                     path |-> normalized_path, log_level |-> log_level] IN
    IF transport = "stdio" THEN [transport |-> "stdio"]
    ELSE IF transport = "http"
    THEN IF ~Falsy(log_level) THEN levelled ELSE network
    ELSE IF transport = "streamable-http"
    THEN IF ~Falsy(log_level) THEN levelled ELSE network
    ELSE IF transport = "sse" THEN network
    ELSE [network EXCEPT !.transport = "http"]

\* run() as it would be without its test of self._mcp_server
run_enter_unguarded(transport, host, port, path, log_level, srv) ==
    [out |-> Returned("awaiting", 0),
     dispatches |-> <<run_kwargs(transport, host, port, path, log_level)>>]

\* CobaltStrikeMCPServer.run up to its await of run_async
run_enter(transport, host, port, path, log_level, srv) ==
    IF ~srv.created
    THEN [out |-> Raised(ServerNotCreatedError), dispatches |-> <<>>]
    ELSE [out |-> Returned("awaiting", 0),
          dispatches |-> <<run_kwargs(transport, host, port, path, log_level)>>]

\* what run() logs with logger.error when run_async ends as outcome:
\* "except Exception" sees neither KeyboardInterrupt nor CancelledError
run_logged(outcome) == IF outcome = "raise" THEN {"MCP server error"} ELSE {}

\* CobaltStrikeMCPServer.run, run_async ending as outcome
run(transport, host, port, path, log_level, outcome, srv) ==
    LET b == run_enter(transport, host, port, path, log_level, srv) IN
    IF b.out.raised
    THEN [out |-> b.out, dispatches |-> b.dispatches, logged |-> {}]
    ELSE [out |-> run_async(outcome), dispatches |-> b.dispatches,
          logged |-> run_logged(outcome)]

\* CobaltStrikeMCPServer.stop
stop(srv) == IF srv.created THEN NoServer ELSE srv

(* ------------------------- steps of the model -------------------------- *)
NoInput == [kind |-> "none"]

\* one operation op on input in: r holds its outcome and the session
\* client's fields afterwards, srv the wrapper's field afterwards
Step(op, in, r, tok, srv) ==
    /\ Len(r.clients) <= MaxClients
    /\ token' = tok
    /\ client' = r.client
    /\ clients' = r.clients
    /\ mcp_server' = srv
    /\ call' = [op |-> op, in |-> in, out |-> r.out]
    /\ closes' = IF op = "close" THEN Min(closes + 1, 2) ELSE 0
    /\ got' = r.handed
    /\ held' = IF op = "close" THEN NoClient
               ELSE IF r.handed # NoClient THEN r.handed ELSE held
    /\ dispatches' = IF "dispatches" \in DOMAIN r THEN r.dispatches ELSE <<>>
    /\ life' = IF op = "create_server" /\ ~r.out.raised THEN "Created"
              ELSE IF op = "run" /\ "dispatches" \in DOMAIN r /\ r.dispatches # <<>>
              THEN "Running"
              ELSE IF op = "stop" /\ life # "Uninitialized" THEN "Stopped"
              ELSE life
    /\ login' = IF "login" \in DOMAIN r THEN r.login ELSE login

\* a result for the operations that do not call get_authenticated_client
Plain(out, cl, cls) == [out |-> out, handed |-> NoClient, client |-> cl, clients |-> cls]

\* a result for authenticate, which made its exchange on the connection lg
PlainLogin(out, cl, cls, lg) ==
    [out |-> out, handed |-> NoClient, client |-> cl, clients |-> cls, login |-> lg]

DoAuthenticate(resp) ==
    LET a == authenticate(resp, token) IN
    Step("authenticate", resp, PlainLogin(a.out, client, clients, a.login), a.token,
         mcp_server)

DoGetAuthenticatedClient ==
    Step("get_authenticated_client", NoInput,
         get_authenticated_client(token, client, clients), token, mcp_server)

DoFetchSpec(resp) ==
    Step("fetch_openapi_spec", resp,
         fetch_openapi_spec(resp, token, client, clients), token, mcp_server)

\* close as it would be if it also cleared the stored token
DoClose_clears_token ==
    LET c == close(client, clients) IN
    Step("close", NoInput, Plain(c.out, c.client, c.clients), None, mcp_server)

DoClose ==
    LET c == close(client, clients) IN
    Step("close", NoInput, Plain(c.out, c.client, c.clients), token, mcp_server)

DoCreateServer(resp, engine) ==
    LET c == create_server(resp, engine, token, client, clients, mcp_server) IN
    Step("create_server", [resp |-> resp, engine |-> engine], c, token, c.mcp_server)

\* a result for run(), which makes the dispatches d
PlainRun(out, cl, cls, d) ==
    [out |-> out, handed |-> NoClient, client |-> cl, clients |-> cls, dispatches |-> d]

DoRun(transport, path, log_level, outcome) ==
    LET r == run(transport, DefaultHost, DefaultPort, path, log_level, outcome,
                 mcp_server) IN
    /\ Step("run", [transport |-> transport, path |-> path, log_level |-> log_level,
                    outcome |-> outcome],
            PlainRun(r.out, client, clients, r.dispatches), token, mcp_server)
    /\ logged' = logged \cup r.logged

\* stop as it would be if it also closed the session client
DoStop_closes_client ==
    LET c == close(client, clients) IN
    Step("stop", NoInput, Plain(c.out, c.client, c.clients), token, stop(mcp_server))

DoStop ==
    Step("stop", NoInput, Plain(Returned("none", 0), client, clients), token,
         stop(mcp_server))

DoBeacons(resp) ==
    Step("active_beacons_resource", resp,
         active_beacons_resource(resp, token, client, clients), token, mcp_server)

DoServerInfo(localip, sysinfo) ==
    Step("server_info_resource", [localip |-> localip, sysinfo |-> sysinfo],
         server_info_resource(localip, sysinfo, token, client, clients),
         token, mcp_server)

DoRecentActivity(resp) ==
    Step("recent_activity_resource", resp,
         recent_activity_resource(resp, token, client, clients), token, mcp_server)

DoListeners(resp) ==
    Step("active_listeners_resource", resp,
         active_listeners_resource(resp, token, client, clients), token, mcp_server)

DoDashboard(resps) ==
    Step("dashboard_stats_resource", resps,
         dashboard_stats_resource(resps, token, client, clients), token, mcp_server)

HandlerOps == {"active_beacons_resource", "server_info_resource",
               "recent_activity_resource", "active_listeners_resource",
               "dashboard_stats_resource"}

\* a read of one of the five resources, the upstream answering from R
DoHandler(R) ==
    \/ \E resp \in R : DoBeacons(resp)
    \/ \E localip \in R, sysinfo \in R : DoServerInfo(localip, sysinfo)
    \/ \E resp \in R : DoRecentActivity(resp)
    \/ \E resp \in R : DoListeners(resp)
    \/ \E resps \in [EndpointNames -> R] : DoDashboard(resps)

(* -------- Spec: the public operations, called in any order ------------- *)
\* the concurrent tasks: the handlers, one fetch_openapi_spec and one
\* create_server
TaskIds == 1..(MaxHandlers + 2)
kind(t) ==
    IF t <= MaxHandlers THEN "active_beacons_resource"
    ELSE IF t = MaxHandlers + 1 THEN "fetch_openapi_spec"
    ELSE "create_server"

InitFields ==
    /\ token = None
    /\ client = NoClient
    /\ clients = <<>>
    /\ mcp_server = NoServer
    /\ call = [op |-> "init", in |-> NoInput, out |-> Returned("none", 0)]
    /\ closes = 0
    /\ got = NoClient
    /\ held = NoClient
    /\ dispatches = <<>>
    /\ life = "Uninitialized"
    /\ pending = NoError
    /\ exit_status = -1
    /\ logged = {}
    /\ trail = <<>>
    /\ tasks = [t \in TaskIds |-> [pc |-> "idle", got |-> NoClient]]
    /\ login = NoLogin

Init == InitFields /\ pc = "api"

main_vars == <<pc, pending, exit_status, logged, trail, tasks>>

Authenticate ==
    pc = "api" /\ UNCHANGED main_vars /\ \E resp \in LoginResponses : DoAuthenticate(resp)
GetAuthenticatedClient ==
    pc = "api" /\ UNCHANGED main_vars /\ DoGetAuthenticatedClient
FetchSpec ==
    pc = "api" /\ UNCHANGED main_vars /\ \E resp \in SpecResponses : DoFetchSpec(resp)
Close ==
    pc = "api" /\ UNCHANGED main_vars /\ DoClose
CreateServer ==
    pc = "api" /\ UNCHANGED main_vars
    /\ \E resp \in SpecResponses, engine \in {"ok", "raise"} : DoCreateServer(resp, engine)
Run ==
    pc = "api" /\ UNCHANGED <<pc, pending, exit_status, trail, tasks>>
    /\ \E transport \in Transports, outcome \in RunOutcomes :
          DoRun(transport, DefaultPath, None, outcome)
Stop ==
    pc = "api" /\ UNCHANGED main_vars /\ DoStop
Handler ==
    pc = "api" /\ UNCHANGED main_vars /\ DoHandler(FewResponses)

Next ==
    \/ Authenticate
    \/ GetAuthenticatedClient
    \/ FetchSpec
    \/ Close
    \/ CreateServer
    \/ Run
    \/ Stop
    \/ Handler

Spec == Init /\ [][Next]_vars

(* -------- SpecViews: the data view handlers on every upstream answer --- *)
InitViews == InitFields /\ pc = "views"

ViewAuthenticate ==
    pc = "views" /\ UNCHANGED main_vars /\ \E resp \in LoginResponses : DoAuthenticate(resp)
ViewClose ==
    pc = "views" /\ UNCHANGED main_vars /\ DoClose
ViewHandler ==
    pc = "views" /\ UNCHANGED main_vars /\ DoHandler(DataResponses)

NextViews ==
    \/ ViewAuthenticate
    \/ ViewClose
    \/ ViewHandler

SpecViews == InitViews /\ [][NextViews]_vars

(* -------- SpecActivity: the activity handler on task lists of any length *)
\* answers of the tasks endpoint: DataResponses, with lists up to MaxTasks
ActivityResponses ==
    DataResponses \cup
    {Response(200, [valid |-> TRUE, is_list |-> TRUE, items |-> Items(n)]) :
        n \in 0..MaxTasks}

InitActivity == InitFields /\ pc = "activity"

ActivityAuthenticate ==
    pc = "activity" /\ UNCHANGED main_vars
    /\ \E resp \in LoginResponses : DoAuthenticate(resp)
ActivityRead ==
    pc = "activity" /\ UNCHANGED main_vars
    /\ \E resp \in ActivityResponses : DoRecentActivity(resp)

NextActivity ==
    \/ ActivityAuthenticate
    \/ ActivityRead

SpecActivity == InitActivity /\ [][NextActivity]_vars

(* -------- SpecMain: main() of the launcher (cs_mcp.py) ----------------- *)
\* ---- run() on every bind path ----
Chars == {"/", "m"}
ExamplePaths == {<<"m", "c", "p">>, <<"/", "m", "c", "p", "/">>, <<"/">>}
\* the bind paths run() is called with
Paths == UNION {[1..n -> Chars] : n \in 0..MaxPathLen} \cup ExamplePaths

InitPath == InitFields /\ pc = "path"

PathAuthenticate ==
    pc = "path" /\ UNCHANGED main_vars /\ \E resp \in LoginResponses : DoAuthenticate(resp)
PathCreateServer ==
    pc = "path" /\ UNCHANGED main_vars
    /\ \E resp \in SpecResponses, engine \in {"ok", "raise"} : DoCreateServer(resp, engine)
PathRun ==
    pc = "path" /\ UNCHANGED <<pc, pending, exit_status, trail, tasks>>
    /\ \E transport \in Transports, path \in Paths : DoRun(transport, path, None, "return")

NextPath ==
    \/ PathAuthenticate
    \/ PathCreateServer
    \/ PathRun

SpecPath == InitPath /\ [][NextPath]_vars

\* ---- create_server on every API description ----
OpPaths == {<<"api", "v1", "beacons">>, <<"api", "v1", "config", "resetData">>,
            <<"api", "v1", "security", "login">>, <<"config", "resetData">>}
OpTags == {{}, {"Security"}, {"Security", "Beacons"}}
Operations == {[path |-> p, tags |-> t] : p \in OpPaths, t \in OpTags}
\* the API descriptions of at most MaxOps operations
Docs == {d \in SUBSET Operations : Cardinality(d) <= MaxOps}
RouteResponses ==
    {Response(500, NoSpecBody)} \cup {Response(200, [valid |-> TRUE, doc |-> d]) : d \in Docs}

InitRoutes == InitFields /\ pc = "routes"

RoutesAuthenticate ==
    pc = "routes" /\ UNCHANGED main_vars /\ \E resp \in LoginResponses : DoAuthenticate(resp)
RoutesCreateServer ==
    pc = "routes" /\ UNCHANGED main_vars
    /\ \E resp \in RouteResponses : DoCreateServer(resp, "ok")
RoutesStop ==
    pc = "routes" /\ UNCHANGED main_vars /\ DoStop

NextRoutes ==
    \/ RoutesAuthenticate
    \/ RoutesCreateServer
    \/ RoutesStop

SpecRoutes == InitRoutes /\ [][NextRoutes]_vars

\* ---- tasks racing for the shared client ----
InitRace == InitFields /\ pc = "race"

RaceAuthenticate ==
    /\ pc = "race" /\ UNCHANGED main_vars
    /\ \E resp \in {Response(200, b) : b \in LoginBodies} : DoAuthenticate(resp)

\* a task as it would be if get_authenticated_client looked at the client
\* reference, was suspended, and constructed the client after resuming
TaskStart_check_before_await(t) ==
    /\ pc = "race"
    /\ tasks[t].pc = "idle"
    /\ LET g == get_authenticated_client(token, NoClient, clients) IN
       /\ Step("task_start", [task |-> t], g, token, mcp_server)
       /\ tasks' = [tasks EXCEPT ![t] = [pc |-> IF g.out.raised THEN "done"
                                               ELSE "awaiting",
                                         got |-> g.handed]]
    /\ UNCHANGED <<pc, pending, exit_status, logged, trail>>

\* a task runs from its start to its first await: it calls
\* get_authenticated_client, which has no await, and is suspended in
\* client.get; without a token the call raises and the task is over
TaskStart(t) ==
    /\ pc = "race"
    /\ tasks[t].pc = "idle"
    /\ LET g == get_authenticated_client(token, client, clients) IN
       /\ Step("task_start", [task |-> t], g, token, mcp_server)
       /\ tasks' = [tasks EXCEPT ![t] = [pc |-> IF g.out.raised THEN "done"
                                               ELSE "awaiting",
                                         got |-> g.handed]]
    /\ UNCHANGED <<pc, pending, exit_status, logged, trail>>

\* the awaited request of a handler task is answered and the handler returns
HandlerResume(t) ==
    /\ pc = "race"
    /\ t <= MaxHandlers
    /\ tasks[t].pc = "awaiting"
    /\ \E resp \in FewResponses :
          LET r == active_beacons_resource(resp, token, client, clients) IN
          /\ Step("task_resume", [task |-> t],
                  [r EXCEPT !.handed = tasks[t].got], token, mcp_server)
          /\ tasks' = [tasks EXCEPT ![t].pc = "done"]
    /\ UNCHANGED <<pc, pending, exit_status, logged, trail>>

\* the awaited spec request of the fetch_openapi_spec task is answered
FetchResume(t) ==
    /\ pc = "race"
    /\ kind(t) = "fetch_openapi_spec"
    /\ tasks[t].pc = "awaiting"
    /\ \E resp \in SpecResponses :
          LET r == fetch_openapi_spec(resp, token, client, clients) IN
          /\ Step("task_resume", [task |-> t],
                  [r EXCEPT !.handed = tasks[t].got], token, mcp_server)
          /\ tasks' = [tasks EXCEPT ![t].pc = "done"]
    /\ UNCHANGED <<pc, pending, exit_status, logged, trail>>

\* the awaited spec request of the create_server task is answered:
\* create_server calls get_authenticated_client once more and builds the
\* server
CreateResume(t) ==
    /\ pc = "race"
    /\ kind(t) = "create_server"
    /\ tasks[t].pc = "awaiting"
    /\ \E resp \in SpecResponses :
          LET c == create_server(resp, "ok", token, client, clients, mcp_server) IN
          /\ Step("create_server", [resp |-> resp, engine |-> "ok"], c, token,
                  c.mcp_server)
          /\ tasks' = [tasks EXCEPT ![t] = [pc |-> "done", got |-> c.handed]]
    /\ UNCHANGED <<pc, pending, exit_status, logged, trail>>

NextRace ==
    \/ RaceAuthenticate
    \/ \E t \in TaskIds : TaskStart(t)
    \/ \E t \in TaskIds : HandlerResume(t)
    \/ \E t \in TaskIds : FetchResume(t)
    \/ \E t \in TaskIds : CreateResume(t)

SpecRace == InitRace /\ [][NextRace]_vars

\* ---- run() on every transport ----
\* the transports run() is called with: the launcher's four choices and one
\* it does not know
RunTransports == Transports \cup {"websocket"}
\* the log-level override: none or one
LogLevels == {None, "debug"}

InitDispatch == InitFields /\ pc = "dispatch"

DispatchAuthenticate ==
    /\ pc = "dispatch" /\ UNCHANGED main_vars
    /\ \E resp \in {Response(200, b) : b \in LoginBodies} : DoAuthenticate(resp)
DispatchCreateServer ==
    pc = "dispatch" /\ UNCHANGED main_vars
    /\ \E resp \in SpecResponses : DoCreateServer(resp, "ok")
DispatchRun ==
    pc = "dispatch" /\ UNCHANGED <<pc, pending, exit_status, trail, tasks>>
    /\ \E transport \in RunTransports, path \in ExamplePaths,
          log_level \in LogLevels, outcome \in RunOutcomes :
          DoRun(transport, path, log_level, outcome)
DispatchStop ==
    pc = "dispatch" /\ UNCHANGED main_vars /\ DoStop

NextDispatch ==
    \/ DispatchAuthenticate
    \/ DispatchCreateServer
    \/ DispatchRun
    \/ DispatchStop

SpecDispatch == InitDispatch /\ [][NextDispatch]_vars

InitMain == InitFields /\ pc = "start"

\* where main() goes after a call made inside the "async with" block
After(out, ok) == IF out.raised THEN "aexit" ELSE ok

\* async with CobaltStrikeClient(...) as cs_client: __aenter__
MainEnter ==
    /\ pc = "start"
    /\ pc' = "authenticate"
    /\ UNCHANGED <<token, client, clients, mcp_server, call, closes, got, held,
                   dispatches, life, pending, exit_status, logged, trail, tasks,
                   login>>

\* await cs_client.authenticate(...)
MainAuthenticate ==
    /\ pc = "authenticate"
    /\ \E resp \in LoginResponses : DoAuthenticate(resp)
    /\ pc' = After(call'.out, "create_server")
    /\ pending' = call'.out.error
    /\ trail' = Append(trail, "authenticate")
    /\ UNCHANGED <<exit_status, logged, tasks>>

\* await mcp_server.create_server(args.spec_url)
MainCreateServer ==
    /\ pc = "create_server"
    /\ \E resp \in SpecResponses, engine \in {"ok", "raise"} : DoCreateServer(resp, engine)
    /\ pc' = After(call'.out, "run")
    /\ pending' = call'.out.error
    /\ trail' = Append(trail, "create_server")
    /\ UNCHANGED <<exit_status, logged, tasks>>

\* await mcp_server.run(...) up to its await of run_async: an exception of
\* run() is logged by main()'s "except Exception" and raised again
MainRun ==
    /\ pc = "run"
    /\ \E transport \in Transports, log_level \in {None, "debug"} :
          LET b == run_enter(transport, DefaultHost, DefaultPort, DefaultPath,
                             log_level, mcp_server) IN
          /\ Step("run", [transport |-> transport, path |-> DefaultPath,
                          log_level |-> log_level, outcome |-> "awaiting"],
                  PlainRun(b.out, client, clients, b.dispatches), token, mcp_server)
          /\ pc' = IF b.out.raised THEN "stop" ELSE "serving"
          /\ pending' = b.out.error
          /\ logged' = IF b.out.raised THEN logged \cup {"Server error"} ELSE logged
          /\ trail' = IF b.out.raised THEN Append(trail, "run")
                      ELSE trail \o <<"run", "run_async">>
    /\ UNCHANGED <<exit_status, tasks>>

\* the protocol runtime, entered by mcp_server.run(...), reads a resource
MainHandler ==
    /\ pc = "serving"
    /\ DoHandler(FewResponses)
    /\ UNCHANGED main_vars

\* run_async ends and run() returns or raises into main()'s try block:
\* an Exception is logged by run() and by main() and raised again,
\* KeyboardInterrupt is swallowed by main(), CancelledError passes
MainRunEnds ==
    /\ pc = "serving"
    /\ \E outcome \in RunOutcomes :
          /\ Step("run", [outcome |-> outcome],
                  PlainRun(run_async(outcome), client, clients, <<>>), token, mcp_server)
          /\ logged' = IF outcome = "raise"
                       THEN logged \cup run_logged(outcome) \cup {"Server error"}
                       ELSE logged
    /\ pc' = "stop"
    /\ pending' = IF call'.out.error = KeyboardInterrupt THEN NoError
                  ELSE call'.out.error
    /\ UNCHANGED <<exit_status, trail, tasks>>

\* finally: await mcp_server.stop()
MainStop ==
    /\ pc = "stop"
    /\ DoStop
    /\ pc' = "aexit"
    /\ trail' = Append(trail, "stop")
    /\ UNCHANGED <<pending, exit_status, logged, tasks>>

\* __aexit__ closes the session client; then asyncio.run returns or raises
\* into the __main__ block, which picks the exit status and logs nothing
MainExit ==
    /\ pc = "aexit"
    /\ DoClose
    /\ pc' = "exit"
    /\ exit_status' = IF pending \in {NoError, CancelledError} THEN 0 ELSE 1
    /\ trail' = Append(trail, "close")
    /\ UNCHANGED <<pending, logged, tasks>>

NextMain ==
    \/ MainEnter
    \/ MainAuthenticate
    \/ MainCreateServer
    \/ MainRun
    \/ MainHandler
    \/ MainRunEnds
    \/ MainStop
    \/ MainExit

SpecMain == InitMain /\ [][NextMain]_vars

(* ------------------------------- claims -------------------------------- *)
\* the errors the specification calls AuthenticationError
AuthenticationErrors == {AuthStatusError, AuthRequestError, AuthMissingTokenError}

\* C1 (as claimed): the client get_authenticated_client returns carries, in
\* its Authorization header, "Bearer " and the token of the most recent
\* successful authenticate, which is the stored token.
C1_HeaderIsLatestToken ==
    (call.op = "get_authenticated_client" /\ ~call.out.raised)
        => clients[call.out.value].Authorization = Bearer(token)

\* C2 (as claimed): one session client constructs at most one shared client.
C2_ConstructedAtMostOnce == Len(clients) <= 1

\* C2 (amended): at most one shared client is live at a time.  Every
\* constructed client other than the referenced one has been released
\* exactly once, the referenced one is the newest and is unreleased, so the
\* constructions never exceed the releases by more than one.
C2_AtMostOneLive ==
    /\ \A i \in 1..Len(clients) :
          IF i = client THEN clients[i].closed = 0 ELSE clients[i].closed = 1
    /\ client # NoClient => client = Len(clients)
    /\ Len(clients) <= Cardinality({i \in 1..Len(clients) : clients[i].closed >= 1}) + 1

\* a second shared client exists after close() released the first
C2_Witness ==
    /\ Len(clients) = 2
    /\ client = 2
    /\ clients[1].closed = 1
    /\ call.op \in HandlerOps

\* C3: with no credential stored, get_authenticated_client, fetch_openapi_spec
\* and create_server raise the not-authenticated error, construct no client
\* and leave the token, the client reference and the server unchanged.
C3_NotAuthenticated ==
    [][(Falsy(token) /\ call'.op \in {"get_authenticated_client",
                                        "fetch_openapi_spec", "create_server"})
        => /\ call'.out = Raised(NotAuthenticatedError)
           /\ clients' = clients
           /\ client' = client
           /\ token' = token
           /\ mcp_server' = mcp_server]_vars

\* create_server failed as not authenticated on a session client that
\* holds no token
C3_Witness ==
    /\ call.op = "create_server"
    /\ call.out = Raised(NotAuthenticatedError)
    /\ token = None
    /\ clients = <<>>

\* the login exchanges the claim C4 lists as not succeeding: a transport
\* failure, a non-2xx answer, a 2xx answer whose token is absent or empty
LoginFails(resp) ==
    \/ resp.kind = "transport_error"
    \/ ~is_success(resp.status)
    \/ resp.body.valid /\ Falsy(dict_get(resp.body.obj, "access_token"))

C5_TokenImmutable == [][token # None => token' = token]_vars

\* C5 (amended): the stored token changes only in a successful authenticate,
\* which replaces it by the token it returns; no operation unsets it.
C5_TokenChangesOnlyByLogin ==
    [][token' # token
        => /\ call'.op = "authenticate"
           /\ ~call'.out.raised
           /\ call'.out.value = token'
           /\ token' \in Tokens]_vars

\* a second successful authenticate replaced the token the shared client
\* was built with
C5_Witness ==
    /\ call.op = "authenticate"
    /\ ~call.out.raised
    /\ client # NoClient
    /\ clients[client].Authorization # Bearer(token)

\* C6: in main(), no shared client is ever released twice, and when the
\* process has ended every shared client constructed was released once.
C6_ReleasedExactlyOnce ==
    /\ \A i \in 1..Len(clients) : clients[i].closed <= 1
    /\ pc = "exit" => \A i \in 1..Len(clients) : clients[i].closed = 1

\* main() ended with a non-zero status after the spec fetch failed, the
\* shared client it had constructed being released
C6_Witness ==
    /\ pc = "exit"
    /\ exit_status = 1
    /\ pending \in {SpecStatusError, SpecRequestError}
    /\ Len(clients) = 1
    /\ clients[1].closed = 1

\* C7: close() never raises and leaves the client reference cleared; when no
\* client is referenced (never constructed, or close() was just called) it
\* releases nothing, otherwise it releases the referenced client once.
C7_CloseIdempotent ==
    [][call'.op = "close"
        => /\ ~call'.out.raised
           /\ client' = NoClient
           /\ (client = NoClient \/ closes >= 1) => clients' = clients
           /\ client # NoClient
                => clients' = [clients EXCEPT ![client].closed = 1]]_vars

\* close() was called twice in a row on a constructed client
C7_Witness ==
    /\ closes = 2
    /\ client = NoClient
    /\ Len(clients) = 1
    /\ clients[1].closed = 1

\* C8: a call of get_authenticated_client hands out the instance the
\* previous call handed out, unless close() was called in between.
C8_SameInstance ==
    [][(held # NoClient /\ got' # NoClient) => got' = held]_vars

\* get_authenticated_client handed out the first instance again after a
\* second authenticate changed the token
C8_Witness ==
    /\ call.op = "get_authenticated_client"
    /\ got = 1
    /\ held = 1
    /\ Len(clients) = 1
    /\ clients[1].Authorization # Bearer(token)

\* the handlers that send one request
SingleOps == {"active_beacons_resource", "recent_activity_resource",
              "active_listeners_resource"}

\* a 200 answer whose body response.json() cannot parse
ParseRaises(resp) == resp.kind = "response" /\ resp.status = 200 /\ ~resp.body.valid

\* the answers the handler of call c received
Answers(c) ==
    IF c.op = "server_info_resource" THEN {c.in.localip, c.in.sysinfo}
    ELSE IF c.op = "dashboard_stats_resource" THEN {c.in[n] : n \in EndpointNames}
    ELSE {c.in}

\* the envelope {error, exception, message}
IsExceptionEnvelope(v) ==
    /\ DOMAIN v = {"error", "exception", "message"}
    /\ v.exception \in {NotAuthenticatedError.msg, HTTPError.msg, JSONDecodeError.msg}

\* C9 (as claimed): each of the five handlers never throws; when one of its
\* requests is answered with a non-2xx status it returns an envelope with
\* 'error' and that numeric status code, and when the transport raises or the
\* session client is not authenticated it returns {error, exception, message}.
C9_ErrorEnvelopeForAllFive ==
    call.op \in HandlerOps
        => LET v == call.out.value
               raises == \E resp \in Answers(call) : resp.kind = "transport_error" IN
           /\ ~call.out.raised
           /\ (~Falsy(token) /\ ~raises)
                => \A resp \in Answers(call) :
                      ~is_success(resp.status)
                          => /\ {"error", "status_code"} \subseteq DOMAIN v
                             /\ v.status_code = resp.status
           /\ (Falsy(token) \/ raises) => IsExceptionEnvelope(v)

\* C9 (amended): each of the five handlers never throws.  The three
\* single-request handlers return {error, status_code, message} with the
\* numeric status when the answer is not 200, and {error, exception, message}
\* when the session client is not authenticated, the transport raises or (for
\* activity and listeners) the 200 body does not parse.  The server-info
\* handler returns {error, exception, message} when not authenticated or when
\* either request raises; otherwise it returns the server information without
\* an error field, a non-200 local-ip answer showing as api_status "limited".
\* The dashboard handler returns {error, exception, message} only when not
\* authenticated; otherwise it has no error field and a non-200 endpoint
\* shows as status "unavailable" with the status code as a string.
C9_HandlersNeverThrow ==
    call.op \in HandlerOps
        => LET v == call.out.value
               authed == ~Falsy(token) IN
           /\ ~call.out.raised
           /\ call.op \in SingleOps
                => /\ (authed /\ call.in.kind = "response" /\ call.in.status # 200)
                        => /\ DOMAIN v = {"error", "status_code", "message"}
                           /\ v.status_code = call.in.status
                   /\ (\/ ~authed
                       \/ call.in.kind = "transport_error"
                       \/ call.op # "active_beacons_resource" /\ ParseRaises(call.in))
                        => IsExceptionEnvelope(v)
           /\ call.op = "server_info_resource"
                => IF \/ ~authed
                      \/ call.in.localip.kind = "transport_error"
                      \/ call.in.sysinfo.kind = "transport_error"
                   THEN IsExceptionEnvelope(v)
                   ELSE /\ "error" \notin DOMAIN v
                        /\ call.in.localip.status # 200
                             => v.cobalt_strike.version.api_status = "limited"
           /\ call.op = "dashboard_stats_resource"
                => IF ~authed
                   THEN IsExceptionEnvelope(v)
                   ELSE /\ "error" \notin DOMAIN v
                        /\ \A n \in EndpointNames :
                              (call.in[n].kind = "response" /\ call.in[n].status # 200)
                                  => /\ v[n].status = "unavailable"
                                     /\ v[n].error_code = ToString(call.in[n].status)

\* the listeners handler answered a 500 with the status envelope
C9_Witness ==
    /\ call.op = "active_listeners_resource"
    /\ call.in.kind = "response"
    /\ call.in.status = 500
    /\ call.out.kind = "json"
    /\ "status_code" \in DOMAIN call.out.value
    /\ call.out.value.status_code = 500

\* the status the dashboard is claimed to report for an endpoint whose
\* request went as resp
ExpectedStatus(resp) ==
    IF resp.kind = "transport_error" \/ ParseRaises(resp) THEN "error"
    ELSE IF resp.status = 200 THEN "available"
    ELSE "unavailable"

\* the count the dashboard is claimed to report for it
ExpectedCount(resp) ==
    IF ExpectedStatus(resp) # "available" THEN "0"
    ELSE IF resp.body.is_list THEN ToString(Len(resp.body.items))
    ELSE "1"

\* C10: on an authenticated session client the dashboard handler returns,
\* for every combination of outcomes of its three requests, one response
\* with an entry for each endpoint, whose status and count depend on that
\* endpoint's own outcome only: available for 200, unavailable for another
\* status, error for a request or a parse that raised.
C10_DashboardIsolation ==
    (call.op = "dashboard_stats_resource" /\ ~Falsy(token))
        => LET stats == call.out.value IN
           /\ ~call.out.raised
           /\ call.out.kind = "json"
           /\ DOMAIN stats = EndpointNames \cup {"dashboard"}
           /\ \A n \in EndpointNames :
                 /\ {"count", "status"} \subseteq DOMAIN stats[n]
                 /\ stats[n].status = ExpectedStatus(call.in[n])
                 /\ stats[n].count = ExpectedCount(call.in[n])

\* the dashboard reported a raising endpoint between a healthy one and an
\* unavailable one
C10_Witness ==
    /\ call.op = "dashboard_stats_resource"
    /\ "tasks" \in DOMAIN call.out.value
    /\ call.in["beacons"].kind = "transport_error"
    /\ call.out.value["beacons"].status = "error"
    /\ call.out.value["listeners"].status = "available"
    /\ call.out.value["tasks"].status = "unavailable"

\* C11 (as claimed): on an authenticated session client whose local-ip
\* request was answered, the server-info handler returns the full server
\* information, without the system_information field and without an error
\* envelope, whenever the system-information request answers a status other
\* than 200 or raises a transport error.
C11_EnrichmentBestEffort ==
    (/\ call.op = "server_info_resource"
     /\ ~Falsy(token)
     /\ call.in.localip.kind = "response"
     /\ \/ call.in.sysinfo.kind = "transport_error"
        \/ call.in.sysinfo.status # 200)
        => LET v == call.out.value IN
           /\ ~call.out.raised
           /\ "error" \notin DOMAIN v
           /\ "cobalt_strike" \in DOMAIN v
           /\ "system_information" \notin DOMAIN v.cobalt_strike

\* C12: for a 200 answer holding a list of N tasks, the activity handler
\* returns the first min(N, 50) of them in upstream order as activities,
\* total_tasks_shown = min(N, 50) and total_tasks_available = N.
C12_ActivityCap ==
    (/\ call.op = "recent_activity_resource"
     /\ ~Falsy(token)
     /\ call.in.kind = "response"
     /\ call.in.status = 200
     /\ call.in.body.valid
     /\ call.in.body.is_list)
        => LET upstream == call.in.body.items
               N == Len(upstream)
               shown == IF N < 50 THEN N ELSE 50
               v == call.out.value IN
           /\ ~call.out.raised
           /\ DOMAIN v = {"metadata", "activities"}
           /\ v.activities.is_list
           /\ Len(v.activities.items) = shown
           /\ \A i \in 1..shown : v.activities.items[i] = upstream[i]
           /\ v.metadata.total_tasks_shown = shown
           /\ v.metadata.total_tasks_available = N

\* 120 upstream tasks were cut to 50
C12_Witness ==
    /\ call.op = "recent_activity_resource"
    /\ call.in.kind = "response"
    /\ call.in.status = 200
    /\ Len(call.in.body.items) = 120
    /\ "metadata" \in DOMAIN call.out.value
    /\ call.out.value.metadata.total_tasks_shown = 50
    /\ call.out.value.metadata.total_tasks_available = 120
    /\ Len(call.out.value.activities.items) = 50

\* ---- lifecycle of the wrapper ----

\* a call of run(), as opposed to the end of one that was awaiting
RunCalled == call'.op = "run" /\ "transport" \in DOMAIN call'.in

LifecycleChain ==
    {<<"Uninitialized", "Created">>, <<"Created", "Running">>,
     <<"Running", "Stopped">>, <<"Stopped", "Created">>}

\* C13 as stated: run() dispatches to the protocol runtime when the wrapper
\* is Created, fails with an error and dispatches nothing when it is
\* Uninitialized or Stopped, and the lifecycle only moves along
\* Uninitialized -> Created -> Running -> Stopped, with Stopped -> Created
\* through a new create_server.
C13_LifecycleChain ==
    [][/\ RunCalled /\ life = "Created" => Len(dispatches') = 1
       /\ RunCalled /\ life \in {"Uninitialized", "Stopped"} =>
             /\ call'.out = Raised(ServerNotCreatedError)
             /\ dispatches' = <<>>
       /\ life' # life => <<life, life'>> \in LifecycleChain]_vars

\* C13 amended: run() dispatches exactly once when a create_server has
\* succeeded since the last stop() (Created or Running: the wrapper keeps no
\* mark of a run), and otherwise fails with the not-created error and
\* dispatches nothing; the server reference is held exactly in Created and
\* Running; the lifecycle moves along the chain, and besides from Created to
\* Stopped through stop() and from Running to Created through create_server.
C13_RunRequiresServer ==
    [][/\ RunCalled /\ life \in {"Created", "Running"} =>
             /\ Len(dispatches') = 1
             /\ call'.out # Raised(ServerNotCreatedError)
       /\ RunCalled /\ life \in {"Uninitialized", "Stopped"} =>
             /\ call'.out = Raised(ServerNotCreatedError)
             /\ dispatches' = <<>>
       /\ mcp_server'.created <=> life' \in {"Created", "Running"}
       /\ life' # life =>
             <<life, life'>> \in LifecycleChain \cup {<<"Created", "Stopped">>,
                                                     <<"Running", "Created">>}]_vars

\* run() was called on a stopped wrapper and failed without dispatching
C13_Witness ==
    /\ life = "Stopped"
    /\ call.op = "run"
    /\ call.out = Raised(ServerNotCreatedError)
    /\ dispatches = <<>>

\* C14: stop() clears the wrapper's server reference and nothing else: the
\* stored token, the shared-client reference and every client, released or
\* not, are as before, and on a wrapper that holds no server (stopped or
\* never created) it changes nothing and does not raise.
C14_StopClearsOnlyServer ==
    [][call'.op = "stop"
        => /\ ~call'.out.raised
           /\ mcp_server' = NoServer
           /\ token' = token
           /\ client' = client
           /\ clients' = clients
           /\ ~mcp_server.created => mcp_server' = mcp_server /\ life' = life]_vars

\* stop() was called on a stopped wrapper while the session client is logged
\* in and holds an unreleased shared client
C14_Witness ==
    /\ call.op = "stop"
    /\ life = "Stopped"
    /\ ~mcp_server.created
    /\ token # None
    /\ client # NoClient
    /\ clients[client].closed = 0

\* C15: close() leaves the stored token as it was, so a session client that
\* was authenticated still is; of the session client's fields it changes the
\* shared-client reference only, and it leaves the wrapper alone.
C15_CloseKeepsToken ==
    [][call'.op = "close"
        => /\ token' = token
           /\ Falsy(token') <=> Falsy(token)
           /\ client' = NoClient
           /\ mcp_server' = mcp_server
           /\ life' = life]_vars

\* close() released the shared client of a logged-in session client whose
\* wrapper holds a server, and the token is still there
C15_Witness ==
    /\ call.op = "close"
    /\ closes = 1
    /\ token = "tokA"
    /\ mcp_server.created
    /\ client = NoClient
    /\ Len(clients) = 1
    /\ clients[1].closed = 1

\* ---- fetching the API description ----

\* the spec request did not bring a document
FetchFails(resp) ==
    \/ resp.kind = "transport_error"
    \/ ~is_success(resp.status)
    \/ ~resp.body.valid

\* C16: on an authenticated session client, fetch_openapi_spec fails with
\* the status error, which carries the response's status, when the answer
\* is not 2xx, fails with the request error when the transport fails, and
\* returns the parsed document of a 2xx answer; it returns a document in no
\* other case, and a create_server whose fetch fails raises that failure
\* and leaves the wrapper's server reference as it was.
C16_FetchSpecOutcomes ==
    [][/\ call'.op = "fetch_openapi_spec" /\ ~Falsy(token) =>
             LET resp == call'.in
                 out == call'.out IN
             /\ resp.kind = "transport_error" => out = Raised(SpecRequestError)
             /\ resp.kind # "transport_error" /\ ~is_success(resp.status)
                   => out = RaisedWith(SpecStatusError, resp.status)
             /\ ~FetchFails(resp) => out = Returned("spec", resp.body.doc)
             /\ FetchFails(resp) => out.raised /\ out.kind # "spec"
       /\ call'.op = "create_server" /\ ~Falsy(token) /\ FetchFails(call'.in.resp) =>
             /\ call'.out.raised
             /\ call'.out
                  = fetch_openapi_spec(call'.in.resp, token, client, clients).out
             /\ mcp_server' = mcp_server
             /\ life' = life]_vars

\* create_server was called on a logged-in session client, the spec request
\* was answered 500, and the wrapper holds no server
C16_Witness ==
    /\ call.op = "create_server"
    /\ token # None
    /\ call.in.resp.kind = "response"
    /\ call.in.resp.status = 500
    /\ call.out.raised
    /\ call.out.error = SpecStatusError
    /\ call.out.value = 500
    /\ ~mcp_server.created

\* ---- the bind path ----

\* C17: the path run() hands to the protocol runtime starts with "/", ends
\* with "/" only when it is "/" itself, and is left as it is by a second
\* normalisation; "mcp" becomes "/mcp", "/mcp/" becomes "/mcp" and "/"
\* stays "/".
C17_PathNormalized ==
    call.op = "run" /\ dispatches # <<>> /\ "path" \in DOMAIN dispatches[1] =>
        LET p == dispatches[1].path IN
        /\ p = normalize_path(call.in.path)
        /\ startswith(p, "/")
        /\ p[Len(p)] = "/" => p = <<"/">>
        /\ normalize_path(p) = p
        /\ call.in.path = <<"m", "c", "p">> => p = <<"/", "m", "c", "p">>
        /\ call.in.path = <<"/", "m", "c", "p", "/">> => p = <<"/", "m", "c", "p">>
        /\ call.in.path = <<"/">> => p = <<"/">>

\* run() was called with the path "m//" and dispatched with "/m"
C17_Witness ==
    /\ call.op = "run"
    /\ call.in.path = <<"m", "/", "/">>
    /\ dispatches # <<>>
    /\ "path" \in DOMAIN dispatches[1]
    /\ dispatches[1].path = <<"/", "m">>

\* ---- the launcher's exit ----

\* the failures of authenticate and of fetch_openapi_spec
StartupErrors ==
    {AuthStatusError, AuthRequestError, AuthMissingTokenError,
     SpecStatusError, SpecRequestError}

\* how many times main() made the call named c
Count(c) == Cardinality({i \in 1..Len(trail) : trail[i] = c})

\* C18: when authentication or the spec fetch fails, the process ends with
\* a non-zero status after the failure has been logged, having tried once
\* and never started the protocol runtime; when the runtime raises an error
\* while serving, the process ends with a non-zero status too.
C18_FatalStartupLogged ==
    pc = "exit" =>
        /\ pending \in StartupErrors =>
              /\ exit_status # 0
              /\ logged # {}
              /\ Count("authenticate") = 1
              /\ Count("create_server") <= 1
              /\ Count("run_async") = 0
        /\ pending = ServerError => exit_status # 0

\* ---- route exclusion ----

\* the path is some prefix followed by config/resetData
IsResetData(path) ==
    /\ Len(path) >= 3
    /\ path[Len(path) - 1] = "config"
    /\ path[Len(path)] = "resetData"

\* C19: a created server is built with both exclusion rules, and no
\* operation of its API description that is tagged Security, or whose path
\* is a prefix followed by config/resetData, is among its tools, whatever
\* the description.
C19_RoutesExcluded ==
    mcp_server.created =>
        /\ \E i \in 1..Len(mcp_server.route_maps) :
              mcp_server.route_maps[i]
                 = [tags |-> {"Security"}, pattern |-> "", mcp_type |-> "EXCLUDE"]
        /\ \E i \in 1..Len(mcp_server.route_maps) :
              mcp_server.route_maps[i]
                 = [tags |-> {}, pattern |-> "^/.*/config/resetData",
                    mcp_type |-> "EXCLUDE"]
        /\ mcp_server.tools \subseteq mcp_server.openapi_spec
        /\ \A op \in mcp_server.openapi_spec :
              "Security" \in op.tags \/ IsResetData(op.path) => op \notin mcp_server.tools

\* a server was created from a description of an untagged resetData
\* operation and a plain one, and only the plain one is a tool
C19_Witness ==
    /\ mcp_server.created
    /\ mcp_server.openapi_spec
         = {[path |-> <<"api", "v1", "config", "resetData">>, tags |-> {}],
            [path |-> <<"api", "v1", "beacons">>, tags |-> {}]}
    /\ mcp_server.tools = {[path |-> <<"api", "v1", "beacons">>, tags |-> {}]}

\* ---- racing callers ----

\* C20: however the handler tasks, fetch_openapi_spec and create_server
\* interleave at their awaits, at most one shared client is constructed,
\* exactly one once a caller has received a client, and every caller that
\* received one received that instance.
C20_ConstructedOnceUnderRace ==
    /\ Len(clients) <= 1
    /\ \A t \in TaskIds :
          /\ tasks[t].got \in {NoClient, client}
          /\ tasks[t].got # NoClient => Len(clients) = 1 /\ client = 1
          /\ tasks[t].pc = "awaiting" => tasks[t].got # NoClient

\* two handlers, fetch_openapi_spec and create_server are all suspended in
\* their requests, each holding the one client that was constructed
C20_Witness ==
    /\ \A t \in TaskIds : tasks[t].pc = "awaiting" /\ tasks[t].got = 1
    /\ Len(clients) = 1
    /\ client = 1

\* ---- the login connection ----

\* C21: authenticate makes its exchange on a connection of its own, which
\* carries no Authorization header and has been released exactly once when
\* authenticate returns or raises, whatever the exchange did (success,
\* non-2xx answer, transport error, unparsable body, no token in the body);
\* the shared-client reference and every shared client are as before.
C21_LoginConnectionReleased ==
    [][call'.op = "authenticate"
        => /\ login'.made
           /\ "Authorization" \notin login'.headers
           /\ login'.closed = 1
           /\ client' = client
           /\ clients' = clients]_vars

\* authenticate raised on an unparsable 2xx body while an unreleased shared
\* client exists: the login connection is released, the shared one is not
C21_Witness ==
    /\ call.op = "authenticate"
    /\ call.out = Raised(JSONDecodeError)
    /\ login.made
    /\ login.closed = 1
    /\ client # NoClient
    /\ clients[client].closed = 0

\* ---- the dispatch to the protocol runtime ----

\* C22: a run() on a created server makes exactly one dispatch, whatever
\* the runtime then does, and what the runtime raises is what run() raises;
\* for stdio the dispatch names the transport only; for http,
\* streamable-http and sse it carries the transport, host, port and the
\* normalised path, and the log level exactly when an override is given.
C22_TransportParameters ==
    call.op = "run" /\ "transport" \in DOMAIN call.in /\ mcp_server.created =>
        /\ Len(dispatches) = 1
        /\ call.out = run_async(call.in.outcome)
        /\ call.in.transport = "stdio" => dispatches[1] = [transport |-> "stdio"]
        /\ call.in.transport \in {"http", "streamable-http", "sse"} =>
              LET k == dispatches[1] IN
              /\ k.transport = call.in.transport
              /\ k.host = DefaultHost
              /\ k.port = DefaultPort
              /\ k.path = normalize_path(call.in.path)
              /\ "log_level" \in DOMAIN k <=> ~Falsy(call.in.log_level)
              /\ "log_level" \in DOMAIN k => k.log_level = call.in.log_level

====
